---- MODULE Spec2Model ----
(***************************************************************************)
(* Streaming RNN-Transducer (tensorflow_asr/models/streaming_transducer.py) *)
(* and its training script (examples/streaming_transducer).                 *)
(*                                                                          *)
(* Tensors are abstracted to small finite values: a feature frame, an       *)
(* encoded frame and one recurrent state tensor of shape [1, P] are each a  *)
(* number in 0..Modulus-1; a tensor of shape [T, ...] is a sequence of      *)
(* length T; the encoder states of shape [num_rnns, 1 or 2, 1, P] are a     *)
(* function from block index 0..nlayers-1 to a sequence of 1 (gru) or 2     *)
(* (lstm) state values.  The framework layers (LSTM/GRU, LayerNormalization,*)
(* Dense) are fixed deterministic functions on these values; which values   *)
(* are routed into which layer, and in which order, is taken from the code. *)
(***************************************************************************)
EXTENDS Integers, Sequences, FiniteSets, TLC

VARIABLES
    model,      \* the constructed StreamingTransducer (encoder blocks, factors)
    held,       \* streaming client: the values returned by the latest recognize_tflite call
    prev,       \* streaming client: the values that were passed into the latest call
    last,       \* observation of the latest call (what each layer was started from)
    calls,      \* number of recognize_tflite calls made in the chain
    batch,      \* batch decoding: the batch of signals
    result,     \* batch decoding: observation of the latest recognize / recognize_beam
    probe,      \* encoder / block probes: the inputs drawn and the outputs observed
    script      \* training script: command line, parsed args and the calls made

vars == <<model, held, prev, last, calls, batch, result, probe, script>>

----------------------------------------------------------------------------
(* Bounds of the model *)

Modulus == 3        \* tensor values are abstracted to 0..Modulus-1
VocabSize == 3      \* tokens are 0..VocabSize-1
MaxLen == 2         \* frames in one signal / chunk
MaxCalls == 3       \* recognize_tflite calls in one chain
MaxMore == 1        \* further encoded frames decoded after a chunk
MaxBatch == 2       \* signals in one batch
MaxKey == 2         \* keys of `reductions` range over -1..MaxKey
MaxLayers == 3      \* nlayers ranges over 0..MaxLayers when the constructor is probed
MaxFactor == 3      \* factors of `reductions` range over -1..MaxFactor

Values == 0 .. (Modulus - 1)
Tokens == 0 .. (VocabSize - 1)
FeatureValues == {0, 1}

RECURSIVE SeqsUpTo(_, _)
SeqsUpTo(S, n) ==
    IF n = 0 THEN {<<>>}
    ELSE LET shorter == SeqsUpTo(S, n - 1)
         IN  shorter \cup {Append(s, x) : s \in {t \in shorter : Len(t) = n - 1}, x \in S}

Signals == SeqsUpTo(FeatureValues, MaxLen)

None == <<>>        \* Python None for an optional layer: <<>> or <<layer>>

----------------------------------------------------------------------------
(* Framework layers and repository code outside the two modelled source files *)

\* text_featurizer.blank
blank == 0

\* dict.get(k, default)
Get(d, k, default) == IF k \in DOMAIN d THEN d[k] ELSE default

\* number of state tensors of the RNN class returned by get_rnn(rnn_type)
NumStates(rnn_type) == IF rnn_type = "lstm" THEN 2 ELSE 1

\* rnn.get_initial_state(...): zeros, one tensor per state of the cell
RnnInitialState(rnn_type) == [p \in 1 .. NumStates(rnn_type) |-> 0]

\* one time step of the recurrent cell of block i: lstm carries <<h, c>>, gru <<h>>
RnnStep(rnn_type, i, st, x) ==
    IF rnn_type = "lstm"
    THEN LET c == (st[2] + x * (i + 1) + 1) % Modulus
             h == (st[1] + c) % Modulus
         IN  <<h, c>>
    ELSE <<(2 * st[1] + x + i + 1) % Modulus>>

\* rnn(inputs, initial_state=...) with return_sequences and return_state:
\* <<sequence of outputs, final states>>
RECURSIVE RnnRun(_, _, _, _)
RnnRun(rnn_type, i, inputs, st) ==
    IF inputs = <<>> THEN [seq |-> <<>>, states |-> st]
    ELSE LET st1 == RnnStep(rnn_type, i, st, Head(inputs))
             rest == RnnRun(rnn_type, i, Tail(inputs), st1)
         IN  [seq |-> <<st1[1]>> \o rest.seq, states |-> rest.states]

\* TimeReduction(factor): pad the time axis to a multiple of factor and merge
\* every factor consecutive frames into one
RECURSIVE SumSeq(_)
SumSeq(s) == IF s = <<>> THEN 0 ELSE Head(s) + SumSeq(Tail(s))

TimeReduction(factor, inputs) ==
    LET T == Len(inputs)
        newT == (T + factor - 1) \div factor
        padded == [t \in 1 .. newT * factor |-> IF t <= T THEN inputs[t] ELSE 0]
    IN  [t \in 1 .. newT |->
            SumSeq(SubSeq(padded, (t - 1) * factor + 1, t * factor)) % Modulus]

\* tf.keras.layers.LayerNormalization, frame by frame
LayerNormalization(xs) == [t \in 1 .. Len(xs) |-> (xs[t] + 1) % Modulus]

\* tf.keras.layers.Dense(dmodel), frame by frame
Dense(xs) == [t \in 1 .. Len(xs) |-> (2 * xs[t]) % Modulus]

\* Reshape: merge_two_last_dims, [B, T, F, C] -> [B, T, F * C]; a frame is one value here
Reshape(inputs) == inputs

\* speech_featurizer.tf_extract(signal): one feature frame per signal frame
tf_extract(signal) == [t \in 1 .. Len(signal) |-> (signal[t] + 1) % Modulus]

\* text_featurizer.indices2upoints: token index -> Unicode code point (blank -> 0)
indices2upoints(prediction) ==
    [k \in 1 .. Len(prediction) |->
        IF prediction[k] = blank THEN 0 ELSE 96 + prediction[k]]

\* text_featurizer.iextract: token indices -> transcript, blanks dropped
iextract(prediction) == SelectSeq(prediction, LAMBDA c : c # blank)

\* predict_net.get_initial_state(): zeros (the whole state tensor is one value here)
PredictNetInitialState == [p \in 1 .. 1 |-> 0]

\* Transducer.decoder_inference(encoded, predicted, states): the prediction network
\* is fed `predicted` from `states`, the joint network scores it against the encoded
\* frame; returns the argmax token and the prediction network's new states
decoder_inference(encoded, predicted, states) ==
    LET new_states == <<(2 * states[1] + predicted + 1) % Modulus>>
    IN  [char |-> (encoded + predicted + new_states[1]) % VocabSize,
         new_states |-> new_states]

\* Transducer.perform_greedy(encoded, predicted, states): one decoder step per encoded
\* frame.  prediction[0] is the given `predicted`; a non-blank argmax is appended and
\* the new prediction states kept, a blank argmax keeps token and states.
\* `fed` records the token that was fed when the kept states were produced (None when
\* they are the states passed in), `blank_last` whether the final frame emitted blank.
RECURSIVE GreedyLoop(_, _, _)
GreedyLoop(encoded, time, hypothesis) ==
    IF ~(time < Len(encoded)) THEN hypothesis
    ELSE LET cur == hypothesis.prediction[hypothesis.index + 1]
             step == decoder_inference(encoded[time + 1], cur, hypothesis.states)
         IN  IF step.char = blank
             THEN GreedyLoop(encoded, time + 1, [hypothesis EXCEPT !.blank_last = TRUE])
             ELSE GreedyLoop(encoded, time + 1,
                     [index |-> hypothesis.index + 1,
                      prediction |-> Append(hypothesis.prediction, step.char),
                      states |-> step.new_states,
                      fed |-> <<cur>>,
                      blank_last |-> FALSE])

perform_greedy(encoded, predicted, states) ==
    GreedyLoop(encoded, 0,
        [index |-> 0, prediction |-> <<predicted>>, states |-> states, fed |-> None,
         blank_last |-> FALSE])

\* Transducer.perform_beam_search(encoded, lm): the best hypothesis of a search that
\* starts from blank and the prediction network's initial state (beam width 1 here)
perform_beam_search(encoded, lm) ==
    LET h == perform_greedy(encoded, blank, PredictNetInitialState)
    IN  [h EXCEPT !.prediction = Tail(h.prediction)]

----------------------------------------------------------------------------
(* StreamingTransducerBlock *)

\* __init__: the optional reduction and layer-norm layers, the rnn
StreamingTransducerBlock(reduction_factor, rnn_type, layer_norm) ==
    [reduction |-> IF reduction_factor > 0 THEN <<reduction_factor>> ELSE None,
     rnn_type  |-> rnn_type,
     ln        |-> IF layer_norm THEN <<"ln">> ELSE None]

\* call(inputs): `trace` lists the layers applied, in order, each with its input
BlockCall(block, i, inputs) ==
    LET o1 == IF block.reduction # None
              THEN TimeReduction(block.reduction[1], inputs) ELSE inputs
        t1 == IF block.reduction # None
              THEN <<[layer |-> "reduction", input |-> inputs]>> ELSE <<>>
        r  == RnnRun(block.rnn_type, i, o1, RnnInitialState(block.rnn_type))
        t2 == Append(t1, [layer |-> "rnn", input |-> o1])
        o2 == r.seq
        o3 == IF block.ln # None THEN LayerNormalization(o2) ELSE o2
        t3 == IF block.ln # None
              THEN Append(t2, [layer |-> "ln", input |-> o2]) ELSE t2
        o4 == Dense(o3)
        t4 == Append(t3, [layer |-> "projection", input |-> o3])
    IN  [outputs |-> o4, trace |-> t4]

\* faulty variant: the rnn run before the time reduction
BlockRecognize_rnn_first(block, i, inputs, states) ==
    LET r  == RnnRun(block.rnn_type, i, inputs, states)
        t1 == <<[layer |-> "rnn", input |-> inputs]>>
        o1 == r.seq
        o2 == IF block.reduction # None
              THEN TimeReduction(block.reduction[1], o1) ELSE o1
        t2 == IF block.reduction # None
              THEN Append(t1, [layer |-> "reduction", input |-> o1]) ELSE t1
        o3 == IF block.ln # None THEN LayerNormalization(o2) ELSE o2
        t3 == IF block.ln # None
              THEN Append(t2, [layer |-> "ln", input |-> o2]) ELSE t2
        o4 == Dense(o3)
        t4 == Append(t3, [layer |-> "projection", input |-> o3])
    IN  [outputs |-> o4, new_states |-> r.states, trace |-> t4,
         initial_state |-> states]

\* recognize(inputs, states): as call, the rnn started from `states`
BlockRecognize(block, i, inputs, states) ==
    LET o1 == IF block.reduction # None
              THEN TimeReduction(block.reduction[1], inputs) ELSE inputs
        t1 == IF block.reduction # None
              THEN <<[layer |-> "reduction", input |-> inputs]>> ELSE <<>>
        r  == RnnRun(block.rnn_type, i, o1, states)
        t2 == Append(t1, [layer |-> "rnn", input |-> o1])
        new_states == r.states
        o2 == r.seq
        o3 == IF block.ln # None THEN LayerNormalization(o2) ELSE o2
        t3 == IF block.ln # None
              THEN Append(t2, [layer |-> "ln", input |-> o2]) ELSE t2
        o4 == Dense(o3)
        t4 == Append(t3, [layer |-> "projection", input |-> o3])
    IN  [outputs |-> o4, new_states |-> new_states, trace |-> t4,
         initial_state |-> states]

----------------------------------------------------------------------------
(* StreamingTransducerEncoder *)

\* faulty variant: every non-zero factor multiplied in (`if reduction_factor:`)
RECURSIVE FactorLoop_nonzero(_, _, _, _)
FactorLoop_nonzero(reductions, nlayers, i, acc) ==
    IF ~(i < nlayers) THEN acc
    ELSE LET reduction_factor == Get(reductions, i, 0)
         IN  FactorLoop_nonzero(reductions, nlayers, i + 1,
                 IF reduction_factor # 0 THEN acc * reduction_factor ELSE acc)

\* __init__, the loop computing time_reduction_factor
RECURSIVE FactorLoop(_, _, _, _)
FactorLoop(reductions, nlayers, i, acc) ==
    IF ~(i < nlayers) THEN acc
    ELSE LET reduction_factor == Get(reductions, i, 0)
         IN  FactorLoop(reductions, nlayers, i + 1,
                 IF reduction_factor > 0 THEN acc * reduction_factor ELSE acc)

\* __init__
StreamingTransducerEncoder(reductions, nlayers, rnn_type, layer_norm) ==
    [blocks |-> [i \in 0 .. (nlayers - 1) |->
                    StreamingTransducerBlock(Get(reductions, i, 0), rnn_type, layer_norm)],
     time_reduction_factor |-> FactorLoop(reductions, nlayers, 0, 1)]

\* get_initial_state(): block by block, stacked
EncoderGetInitialState(encoder) ==
    [i \in DOMAIN encoder.blocks |-> RnnInitialState(encoder.blocks[i].rnn_type)]

\* call(inputs)
RECURSIVE EncoderCallLoop(_, _, _, _)
EncoderCallLoop(encoder, i, outputs, traces) ==
    IF i \notin DOMAIN encoder.blocks THEN [outputs |-> outputs, traces |-> traces]
    ELSE LET b == BlockCall(encoder.blocks[i], i, outputs)
         IN  EncoderCallLoop(encoder, i + 1, b.outputs, Append(traces, b.trace))

EncoderCall(encoder, inputs) == EncoderCallLoop(encoder, 0, Reshape(inputs), <<>>)

\* recognize(inputs, states): new_states is the Python list the loop appends to,
\* initial_states lists what each block's rnn was started from
RECURSIVE EncoderRecognizeLoop(_, _, _, _, _, _)
EncoderRecognizeLoop(encoder, states, i, outputs, new_states, initial_states) ==
    IF i \notin DOMAIN encoder.blocks
    THEN [outputs |-> outputs, new_states |-> new_states,
          initial_states |-> initial_states]
    ELSE LET b == BlockRecognize(encoder.blocks[i], i, outputs, states[i])
         IN  EncoderRecognizeLoop(encoder, states, i + 1, b.outputs,
                 Append(new_states, b.new_states),
                 Append(initial_states, b.initial_state))

\* tf.stack(list, axis=0): the list as a tensor indexed from 0
Stack(list) == [i \in 0 .. (Len(list) - 1) |-> list[i + 1]]

\* faulty variant: the new states stacked in reverse block order
EncoderRecognize_reversed(encoder, inputs, states) ==
    LET r == EncoderRecognizeLoop(encoder, states, 0, Reshape(inputs), <<>>, <<>>)
        n == Len(r.new_states)
    IN  [outputs |-> r.outputs,
         new_states |-> [i \in 0 .. (n - 1) |-> r.new_states[n - i]],
         initial_states |-> Stack(r.initial_states)]

EncoderRecognize(encoder, inputs, states) ==
    LET r == EncoderRecognizeLoop(encoder, states, 0, Reshape(inputs), <<>>, <<>>)
    IN  [outputs |-> r.outputs, new_states |-> Stack(r.new_states),
         initial_states |-> Stack(r.initial_states)]

\* shape of an encoder state tensor: <<num_rnns, 1 or 2>> (the trailing [1, P] is one value)
Shape(states) ==
    <<Cardinality(DOMAIN states)>> \o
    (IF DOMAIN states = {} THEN <<>> ELSE <<Len(states[0])>>)

----------------------------------------------------------------------------
(* StreamingTransducer *)

\* __init__
StreamingTransducer(reductions, nlayers, rnn_type, layer_norm) ==
    LET encoder == StreamingTransducerEncoder(reductions, nlayers, rnn_type, layer_norm)
    IN  [encoder |-> encoder,
         time_reduction_factor |-> encoder.time_reduction_factor]

\* faulty variant: the encoder restarted from its zero initial state on every call
encoder_inference_from_zero(m, features, states) ==
    EncoderRecognize(m.encoder, features, EncoderGetInitialState(m.encoder))

\* encoder_inference(features, states)
encoder_inference(m, features, states) == EncoderRecognize(m.encoder, features, states)

\* faulty variant: prediction[0] returned in place of prediction[-1]
TfliteReturn_first(enc, hypothesis, predicted, prediction_states) ==
    [transcript |-> indices2upoints(hypothesis.prediction),
     predicted |-> hypothesis.prediction[1],
     encoder_states |-> enc.new_states,
     prediction_states |-> hypothesis.states,
     encoded |-> enc.outputs,
     encoder_started_from |-> enc.initial_states,
     decoder_started_from |-> [predicted |-> predicted, states |-> prediction_states],
     hypothesis |-> hypothesis]

\* recognize_tflite, the values returned: transcript, hypothesis.prediction[-1], the
\* new encoder states and hypothesis.states (then the observations of the call)
TfliteReturn(enc, hypothesis, predicted, prediction_states) ==
    [transcript |-> indices2upoints(hypothesis.prediction),
     predicted |-> hypothesis.prediction[Len(hypothesis.prediction)],
     encoder_states |-> enc.new_states,
     prediction_states |-> hypothesis.states,
     encoded |-> enc.outputs,
     encoder_started_from |-> enc.initial_states,
     decoder_started_from |-> [predicted |-> predicted, states |-> prediction_states],
     hypothesis |-> hypothesis]

\* recognize_tflite, the greedy decoding of the encoded chunk
TfliteDecode(enc, predicted, prediction_states) ==
    TfliteReturn(enc, perform_greedy(enc.outputs, predicted, prediction_states),
                 predicted, prediction_states)

\* recognize_tflite(signal, predicted, encoder_states, prediction_states)
recognize_tflite(m, signal, predicted, encoder_states, prediction_states) ==
    TfliteDecode(encoder_inference(m, tf_extract(signal), encoder_states),
                 predicted, prediction_states)

\* recognize(signals), execute(signal)
RecognizeExecute(m, signal) ==
    LET features == tf_extract(signal)
        enc == encoder_inference(m, features, EncoderGetInitialState(m.encoder))
        hypothesis == perform_greedy(enc.outputs, blank, PredictNetInitialState)
    IN  [transcript |-> iextract(hypothesis.prediction),
         encoder_started_from |-> enc.initial_states,
         decoder_started_from |-> [predicted |-> blank, states |-> PredictNetInitialState]]

\* recognize_beam(signals, lm), execute(signal)
RecognizeBeamExecute(m, signal, lm) ==
    LET features == tf_extract(signal)
        enc == encoder_inference(m, features, EncoderGetInitialState(m.encoder))
        hypothesis == perform_beam_search(enc.outputs, lm)
    IN  [transcript |-> iextract(hypothesis.prediction),
         encoder_started_from |-> enc.initial_states]

\* faulty variant: the encoder states of one signal carried into the next signal of the batch
RECURSIVE RecognizeCarry(_, _, _, _)
RecognizeCarry(m, signals, k, states) ==
    IF k > Len(signals) THEN <<>>
    ELSE LET enc == encoder_inference(m, tf_extract(signals[k]), states)
             hypothesis == perform_greedy(enc.outputs, blank, PredictNetInitialState)
         IN  <<[transcript |-> iextract(hypothesis.prediction),
                encoder_started_from |-> enc.initial_states,
                decoder_started_from |->
                    [predicted |-> blank, states |-> PredictNetInitialState]]>>
             \o RecognizeCarry(m, signals, k + 1, enc.new_states)

recognize_carrying_state(m, signals) ==
    RecognizeCarry(m, signals, 1, EncoderGetInitialState(m.encoder))

\* recognize(signals): tf.map_fn(execute, signals), element by element, in order
recognize(m, signals) ==
    [k \in 1 .. Len(signals) |-> RecognizeExecute(m, signals[k])]

\* recognize_beam(signals, lm): tf.map_fn(execute, signals)
recognize_beam(m, signals, lm) ==
    [k \in 1 .. Len(signals) |-> RecognizeBeamExecute(m, signals[k], lm)]

\* make_tflite_function: the input signature's encoder-state shape
TfliteSignatureEncoderShape(m) == Shape(EncoderGetInitialState(m.encoder))

----------------------------------------------------------------------------
(* Model configurations used by the streaming, batch and encoder specifications *)

ModelConfigs ==
    { [reductions |-> (0 :> 3 @@ 1 :> 2), nlayers |-> 2, rnn_type |-> "lstm",
       layer_norm |-> TRUE],
      [reductions |-> (0 :> 2), nlayers |-> 2, rnn_type |-> "gru",
       layer_norm |-> FALSE],
      [reductions |-> (1 :> 2), nlayers |-> 2, rnn_type |-> "lstm",
       layer_norm |-> FALSE],
      [reductions |-> <<>>, nlayers |-> 1, rnn_type |-> "lstm",
       layer_norm |-> TRUE] }

Build(c) == StreamingTransducer(c.reductions, c.nlayers, c.rnn_type, c.layer_norm)

Idle == [stage |-> "idle"]

----------------------------------------------------------------------------
(* Streaming: a client chaining recognize_tflite calls *)

\* what the client holds before the first call: blank and the zero initial states
StreamStart(m) ==
    [predicted |-> blank,
     encoder_states |-> EncoderGetInitialState(m.encoder),
     prediction_states |-> PredictNetInitialState,
     fed |-> None,
     older_encoder_states |-> EncoderGetInitialState(m.encoder)]

StreamInit ==
    /\ model \in {Build(c) : c \in ModelConfigs}
    /\ held = StreamStart(model)
    /\ prev = held
    /\ last = Idle
    /\ calls = 0
    /\ batch = <<>>
    /\ result = Idle
    /\ probe = Idle
    /\ script = Idle

\* what the client holds after a call that returned r
Held(r, before) ==
    [predicted |-> r.predicted,
     encoder_states |-> r.encoder_states,
     prediction_states |-> r.prediction_states,
     fed |-> IF r.hypothesis.fed # None THEN r.hypothesis.fed ELSE before.fed,
     older_encoder_states |-> before.encoder_states]

\* call k+1: the values returned by call k are the inputs
StreamCall(signal) ==
    /\ calls < MaxCalls
    /\ last' = recognize_tflite(model, signal, held.predicted, held.encoder_states,
                                held.prediction_states)
    /\ held' = Held(last', held)
    /\ prev' = held
    /\ calls' = calls + 1
    /\ UNCHANGED <<model, batch, result, probe, script>>

StreamNext == \E signal \in Signals : StreamCall(signal)

Spec == StreamInit /\ [][StreamNext]_vars

----------------------------------------------------------------------------
(* C1: state carried across a chain of recognize_tflite calls *)

\* C1: in call k+1 of a chain (k >= 1) every encoder block's rnn is started from the
\* encoder states call k returned, and the decoder is started from the prediction
\* states (and predicted token) call k returned.
C1_StateCarriedAcrossCalls ==
    calls >= 2 =>
        /\ DOMAIN last.encoder_started_from = DOMAIN model.encoder.blocks
        /\ \A i \in DOMAIN model.encoder.blocks :
               last.encoder_started_from[i] = prev.encoder_states[i]
        /\ last.decoder_started_from.states = prev.prediction_states
        /\ last.decoder_started_from.predicted = prev.predicted

\* a second or later call whose carried encoder states are neither the zero initial
\* state nor the states of the call before, and whose prediction states are not zero
C1_Witness ==
    /\ calls >= 2
    /\ prev.encoder_states # EncoderGetInitialState(model.encoder)
    /\ prev.encoder_states # prev.older_encoder_states
    /\ prev.prediction_states # PredictNetInitialState
    /\ Len(last.encoded) > 0

----------------------------------------------------------------------------
(* C3: the second value returned by recognize_tflite *)

EncodedChunks == SeqsUpTo(Values, MaxMore)

C3_WitnessNoFrames == calls >= 2 /\ last.encoded = <<>> /\ held.predicted # blank

----------------------------------------------------------------------------
(* Encoder and block probes: each operation applied to drawn inputs *)

RnnTypes == {"lstm", "gru"}

\* every state tensor of shape [nlayers, NumStates, 1, P] of an encoder
EncoderStates(encoder) ==
    [DOMAIN encoder.blocks ->
        UNION {[1 .. NumStates(t) -> Values] :
                  t \in {encoder.blocks[i].rnn_type : i \in DOMAIN encoder.blocks}}]

EncoderInit ==
    /\ model \in {Build(c) : c \in ModelConfigs}
    /\ held = Idle
    /\ prev = Idle
    /\ last = Idle
    /\ calls = 0
    /\ batch = <<>>
    /\ result = Idle
    /\ probe = Idle
    /\ script = Idle

ProbeEncoderRecognize(inputs, states) ==
    /\ probe = Idle
    /\ probe' = [stage |-> "encoder.recognize", inputs |-> inputs, states |-> states,
                 out |-> EncoderRecognize(model.encoder, inputs, states)]
    /\ UNCHANGED <<model, held, prev, last, calls, batch, result, script>>

ProbeEncoderCall(inputs) ==
    /\ probe = Idle
    /\ probe' = [stage |-> "encoder.call", inputs |-> inputs,
                 out |-> EncoderCall(model.encoder, inputs)]
    /\ UNCHANGED <<model, held, prev, last, calls, batch, result, script>>

ProbeGetInitialState ==
    /\ probe = Idle
    /\ probe' = [stage |-> "encoder.get_initial_state",
                 out |-> EncoderGetInitialState(model.encoder)]
    /\ UNCHANGED <<model, held, prev, last, calls, batch, result, script>>

ProbeBlockCall(reduction_factor, rnn_type, layer_norm, inputs) ==
    /\ probe = Idle
    /\ LET block == StreamingTransducerBlock(reduction_factor, rnn_type, layer_norm)
       IN  probe' = [stage |-> "block.call", reduction_factor |-> reduction_factor,
                     layer_norm |-> layer_norm, block |-> block, inputs |-> inputs,
                     out |-> BlockCall(block, 0, inputs)]
    /\ UNCHANGED <<model, held, prev, last, calls, batch, result, script>>

ProbeBlockRecognize(reduction_factor, rnn_type, layer_norm, inputs, states) ==
    /\ probe = Idle
    /\ LET block == StreamingTransducerBlock(reduction_factor, rnn_type, layer_norm)
       IN  probe' = [stage |-> "block.recognize", reduction_factor |-> reduction_factor,
                     layer_norm |-> layer_norm, block |-> block, inputs |-> inputs,
                     states |-> states,
                     out |-> BlockRecognize(block, 0, inputs, states)]
    /\ UNCHANGED <<model, held, prev, last, calls, batch, result, script>>

Frames == SeqsUpTo(Values, MaxLen)

EncoderNext ==
    /\ probe = Idle
    /\ \/ \E inputs \in Frames, states \in EncoderStates(model.encoder) :
              ProbeEncoderRecognize(inputs, states)
       \/ \E inputs \in Frames : ProbeEncoderCall(inputs)
       \/ ProbeGetInitialState

SpecEncoder == EncoderInit /\ [][EncoderNext]_vars

\* a single block, built and run on drawn inputs
BlockInit ==
    /\ model = Idle
    /\ held = Idle
    /\ prev = Idle
    /\ last = Idle
    /\ calls = 0
    /\ batch = <<>>
    /\ result = Idle
    /\ probe = Idle
    /\ script = Idle

BlockNext ==
    /\ probe = Idle
    /\ \/ \E rf \in -1 .. MaxFactor, t \in RnnTypes, ln \in BOOLEAN, inputs \in Frames :
              ProbeBlockCall(rf, t, ln, inputs)
       \/ \E rf \in -1 .. MaxFactor, t \in RnnTypes, ln \in BOOLEAN, inputs \in Frames :
              \E states \in [1 .. NumStates(t) -> Values] :
                  ProbeBlockRecognize(rf, t, ln, inputs, states)

SpecBlock == BlockInit /\ [][BlockNext]_vars

----------------------------------------------------------------------------
(* C2: per-block state routing and state layout of encoder.recognize *)

\* the input of block i when recognize runs the blocks in order on probe.inputs
RECURSIVE BlockInput(_)
BlockInput(i) ==
    IF i = 0 THEN Reshape(probe.inputs)
    ELSE BlockRecognize(model.encoder.blocks[i - 1], i - 1, BlockInput(i - 1),
                        probe.states[i - 1]).outputs

\* C2: encoder.recognize starts block i's rnn from states[i], stores the state block i
\* produces at index i of the returned states, and returns states of the shape of the
\* input states, of get_initial_state() and of the tflite signature.
C2_StateRoutedPerBlock ==
    probe.stage = "encoder.recognize" =>
        LET blocks == model.encoder.blocks
            out == probe.out
        IN  /\ DOMAIN out.new_states = DOMAIN blocks
            /\ \A i \in DOMAIN blocks :
                   /\ out.initial_states[i] = probe.states[i]
                   /\ out.new_states[i] =
                          BlockRecognize(blocks[i], i, BlockInput(i),
                                         probe.states[i]).new_states
                   /\ Len(out.new_states[i]) = NumStates(blocks[i].rnn_type)
            /\ Shape(out.new_states) = Shape(probe.states)
            /\ Shape(out.new_states) = Shape(EncoderGetInitialState(model.encoder))
            /\ Shape(out.new_states) = TfliteSignatureEncoderShape(model)
            /\ out.new_states \in EncoderStates(model.encoder)

\* recognize on a two-block encoder whose blocks are given, and produce, different states
C2_Witness ==
    /\ probe.stage = "encoder.recognize"
    /\ Cardinality(DOMAIN model.encoder.blocks) = 2
    /\ Len(probe.inputs) > 0
    /\ probe.states[0] # probe.states[1]
    /\ probe.out.new_states[0] # probe.out.new_states[1]
    /\ probe.out.new_states # probe.states

----------------------------------------------------------------------------
(* C5: order of the layers inside a block *)

Layers(trace) == [k \in 1 .. Len(trace) |-> trace[k].layer]

ExpectedLayers(reduction_factor, layer_norm) ==
    (IF reduction_factor > 0 THEN <<"reduction">> ELSE <<>>) \o <<"rnn">> \o
    (IF layer_norm THEN <<"ln">> ELSE <<>>) \o <<"projection">>

\* C5: a block applies reduction (only when built with reduction_factor > 0, and then
\* to the block's input), then the rnn (on the reduced input, or on the input itself
\* when there is no reduction layer), then layer normalization (when enabled), then
\* the projection, in call and in recognize.
C5_ReductionBeforeRnn ==
    probe.stage \in {"block.call", "block.recognize"} =>
        LET rf == probe.reduction_factor
            trace == probe.out.trace
            rnnAt == IF rf > 0 THEN 2 ELSE 1
        IN  /\ Layers(trace) = ExpectedLayers(rf, probe.layer_norm)
            /\ (probe.block.reduction # None) <=> (rf > 0)
            /\ trace[1].input = probe.inputs
            /\ trace[rnnAt].input =
                   ( IF rf > 0 THEN TimeReduction(rf, probe.inputs) ELSE probe.inputs )
            /\ Len(probe.out.outputs) = Len(trace[rnnAt].input)
            /\ probe.out.outputs = Dense(trace[Len(trace)].input)

\* a block with a reduction layer and layer normalization run on an input that the
\* reduction shortens
C5_Witness ==
    /\ probe.stage = "block.recognize"
    /\ probe.reduction_factor > 1
    /\ probe.layer_norm
    /\ Len(probe.inputs) > 1
    /\ Len(probe.out.outputs) < Len(probe.inputs)

\* a block built with reduction_factor <= 0
C5_WitnessNoReduction ==
    /\ probe.stage = "block.call"
    /\ probe.reduction_factor <= 0
    /\ Len(probe.inputs) > 1

----------------------------------------------------------------------------
(* Construction: StreamingTransducer(...) on drawn `reductions` and nlayers *)

\* every dict whose keys are among -1..MaxKey and whose factors are in -1..MaxFactor
ReductionDicts ==
    UNION {[K -> -1 .. MaxFactor] : K \in SUBSET (-1 .. MaxKey)}

DefaultReductions == (0 :> 3 @@ 1 :> 2)

ConstructInit ==
    /\ model = Idle
    /\ held = Idle
    /\ prev = Idle
    /\ last = Idle
    /\ calls = 0
    /\ batch = <<>>
    /\ result = Idle
    /\ \E reductions \in ReductionDicts, nlayers \in 0 .. MaxLayers, t \in RnnTypes :
           probe = [stage |-> "args", reductions |-> reductions, nlayers |-> nlayers,
                    rnn_type |-> t]
    /\ script = Idle

Construct ==
    /\ probe.stage = "args"
    /\ model' = StreamingTransducer(probe.reductions, probe.nlayers, probe.rnn_type, TRUE)
    /\ probe' = [probe EXCEPT !.stage = "built"]
    /\ UNCHANGED <<held, prev, last, calls, batch, result, script>>

SpecConstruct == ConstructInit /\ [][Construct]_vars

----------------------------------------------------------------------------
(* C6: time_reduction_factor *)

RECURSIVE Product(_, _)
Product(f, S) ==
    IF S = {} THEN 1
    ELSE LET k == CHOOSE k \in S : TRUE IN f[k] * Product(f, S \ {k})

\* C6: time_reduction_factor is the product of the positive factors of `reductions`
\* whose key is in 0..nlayers-1, which is the product of the factors of the blocks
\* built with a reduction layer; it is 1 when no block reduces, 6 for the default
\* reductions with nlayers >= 2, and the model's value is its encoder's.
C6_TimeReductionFactor ==
    probe.stage = "built" =>
        LET reductions == probe.reductions
            blocks == model.encoder.blocks
            keys == {k \in DOMAIN reductions :
                        k \in 0 .. (probe.nlayers - 1) /\ reductions[k] > 0}
            reducing == {i \in DOMAIN blocks : blocks[i].reduction # None}
        IN  /\ DOMAIN blocks = 0 .. (probe.nlayers - 1)
            /\ model.encoder.time_reduction_factor = Product(reductions, keys)
            /\ model.encoder.time_reduction_factor =
                   Product([i \in reducing |-> blocks[i].reduction[1]], reducing)
            /\ reducing = {} => model.encoder.time_reduction_factor = 1
            /\ (reductions = DefaultReductions /\ probe.nlayers >= 2)
                   => model.encoder.time_reduction_factor = 6
            /\ model.time_reduction_factor = model.encoder.time_reduction_factor

\* a model built from reductions holding a positive factor in range, a non-positive
\* factor in range and a positive factor whose key is not a block index
C6_Witness ==
    /\ probe.stage = "built"
    /\ \E k \in DOMAIN probe.reductions :
           k \in 0 .. (probe.nlayers - 1) /\ probe.reductions[k] > 1
    /\ \E k \in DOMAIN probe.reductions :
           k \in 0 .. (probe.nlayers - 1) /\ probe.reductions[k] <= 0
    /\ \E k \in DOMAIN probe.reductions :
           k \notin 0 .. (probe.nlayers - 1) /\ probe.reductions[k] > 1
    /\ model.time_reduction_factor > 1

\* the default reductions
C6_WitnessDefault ==
    /\ probe.stage = "built"
    /\ probe.reductions = DefaultReductions
    /\ probe.nlayers >= 2

----------------------------------------------------------------------------
(* Batch decoding: recognize and recognize_beam on a drawn batch *)

Batches == SeqsUpTo(Signals, MaxBatch)

BatchInit ==
    /\ model \in {Build(c) : c \in ModelConfigs}
    /\ held = Idle
    /\ prev = Idle
    /\ last = Idle
    /\ calls = 0
    /\ batch \in Batches
    /\ result = Idle
    /\ probe = Idle
    /\ script = Idle

Recognize ==
    /\ result = Idle
    /\ result' = [stage |-> "recognize", lm |-> FALSE, out |-> recognize(model, batch)]
    /\ UNCHANGED <<model, held, prev, last, calls, batch, probe, script>>

RecognizeBeam(lm) ==
    /\ result = Idle
    /\ result' = [stage |-> "recognize_beam", lm |-> lm,
                  out |-> recognize_beam(model, batch, lm)]
    /\ UNCHANGED <<model, held, prev, last, calls, batch, probe, script>>

BatchNext == Recognize \/ \E lm \in BOOLEAN : RecognizeBeam(lm)

SpecBatch == BatchInit /\ [][BatchNext]_vars

----------------------------------------------------------------------------
(* C7: batch decoding keeps no state between the signals of a batch *)

Reverse(s) == [k \in 1 .. Len(s) |-> s[Len(s) + 1 - k]]

Transcripts(out) == [k \in 1 .. Len(out) |-> out[k].transcript]

\* C7: in recognize and recognize_beam every signal is encoded from the encoder's zero
\* initial state; in recognize every signal is decoded from blank and the prediction
\* network's initial state; a signal's transcript is the transcript it gets when decoded
\* alone, so it depends neither on the other signals of the batch nor on their order.
C7_NoStateBetweenSignals ==
    result.stage \in {"recognize", "recognize_beam"} =>
        LET out == result.out
            alone(signal) ==
                IF result.stage = "recognize"
                THEN recognize(model, <<signal>>)[1].transcript
                ELSE recognize_beam(model, <<signal>>, result.lm)[1].transcript
            reversed ==
                IF result.stage = "recognize"
                THEN recognize(model, Reverse(batch))
                ELSE recognize_beam(model, Reverse(batch), result.lm)
        IN  /\ Len(out) = Len(batch)
            /\ \A k \in 1 .. Len(batch) :
                   /\ out[k].encoder_started_from = EncoderGetInitialState(model.encoder)
                   /\ result.stage = "recognize" =>
                          out[k].decoder_started_from =
                              [predicted |-> blank, states |-> PredictNetInitialState]
                   /\ out[k].transcript = alone(batch[k])
            /\ \A j, k \in 1 .. Len(batch) :
                   batch[j] = batch[k] => out[j].transcript = out[k].transcript
            /\ Transcripts(reversed) = Reverse(Transcripts(out))

\* a batch of two different signals with different, non-empty transcripts
C7_Witness ==
    /\ result.stage = "recognize"
    /\ Len(batch) = 2
    /\ batch[1] # batch[2]
    /\ result.out[1].transcript # <<>>
    /\ result.out[2].transcript # <<>>
    /\ result.out[1].transcript # result.out[2].transcript

----------------------------------------------------------------------------
(* Training script: examples/streaming_transducer/train_streaming_transducer.py *)

\* os.path.join(<directory of the script>, "config.yml")
DEFAULT_YAML == "<script dir>/config.yml"

\* default of --max_ckpts
DEFAULT_MAX_CKPTS == 10

\* command-line words for an integer option: decimal digit strings
IntWords == {<<1>>, <<0, 5>>, <<1, 2>>}

\* a command line: every option absent (None) or given (<<value>>), flags given or not
CommandLines ==
    [config    : {None, <<"my.yml">>},
     max_ckpts : {None} \cup {<<w>> : w \in IntWords},
     tfrecords : BOOLEAN,
     tbs       : {None} \cup {<<w>> : w \in IntWords},
     ebs       : {None} \cup {<<w>> : w \in IntWords},
     devices   : {None, <<<<>>>>, <<<< <<0>> >>>>, <<<< <<1>> >>>>, <<<< <<0>>, <<1>> >>>>},
     mxp       : BOOLEAN,
     cache     : BOOLEAN]

\* int(word) for a decimal digit string
RECURSIVE ParseInt(_)
ParseInt(word) ==
    IF word = <<>> THEN 0
    ELSE ParseInt(SubSeq(word, 1, Len(word) - 1)) * 10 + word[Len(word)]

\* parser.parse_args(): type=int options converted, defaults for absent options;
\* a batch size is None or <<n>>
parse_args(argv) ==
    [config    |-> IF argv.config = None THEN DEFAULT_YAML ELSE argv.config[1],
     max_ckpts |-> IF argv.max_ckpts = None THEN DEFAULT_MAX_CKPTS
                   ELSE ParseInt(argv.max_ckpts[1]),
     tfrecords |-> argv.tfrecords,
     tbs       |-> IF argv.tbs = None THEN None ELSE <<ParseInt(argv.tbs[1])>>,
     ebs       |-> IF argv.ebs = None THEN None ELSE <<ParseInt(argv.ebs[1])>>,
     devices   |-> IF argv.devices = None THEN <<0>>
                   ELSE [k \in 1 .. Len(argv.devices[1]) |-> ParseInt(argv.devices[1][k])],
     mxp       |-> argv.mxp,
     cache     |-> argv.cache]

\* faulty variant: the evaluation dataset never cached
Datasets_eval_uncached(args) ==
    LET class == IF args.tfrecords THEN "ASRTFRecordDataset" ELSE "ASRSliceDataset"
    IN  [train |-> [class |-> class, stage |-> "train",
                    cache |-> args.cache, shuffle |-> TRUE],
         eval  |-> [class |-> class, stage |-> "eval",
                    cache |-> FALSE, shuffle |-> TRUE]]

\* the two dataset constructions, by args.tfrecords
Datasets(args) ==
    IF args.tfrecords
    THEN [train |-> [class |-> "ASRTFRecordDataset", stage |-> "train",
                     cache |-> args.cache, shuffle |-> TRUE],
          eval  |-> [class |-> "ASRTFRecordDataset", stage |-> "eval",
                     cache |-> args.cache, shuffle |-> TRUE]]
    ELSE [train |-> [class |-> "ASRSliceDataset", stage |-> "train",
                     cache |-> args.cache, shuffle |-> TRUE],
          eval  |-> [class |-> "ASRSliceDataset", stage |-> "eval",
                     cache |-> args.cache, shuffle |-> TRUE]]

\* trainer.fit(train_dataset, eval_dataset, train_bs=args.tbs, eval_bs=args.ebs)
FitArguments(args, datasets) ==
    [train_dataset |-> datasets.train, eval_dataset |-> datasets.eval,
     train_bs |-> args.tbs, eval_bs |-> args.ebs]

ScriptInit ==
    /\ model = Idle
    /\ held = Idle
    /\ prev = Idle
    /\ last = Idle
    /\ calls = 0
    /\ batch = <<>>
    /\ result = Idle
    /\ probe = Idle
    /\ \E argv \in CommandLines :
           script = [pc |-> "parse_args", argv |-> argv, args |-> Idle,
                     datasets |-> Idle, received |-> <<>>]

\* `received` maps each consumer called so far to the arguments it was given
Receive(consumer, arguments) == consumer :> arguments @@ script.received

ParseArgs ==
    /\ script.pc = "parse_args"
    /\ script' = [script EXCEPT !.pc = "set_experimental_options",
                                !.args = parse_args(script.argv)]
    /\ UNCHANGED <<model, held, prev, last, calls, batch, result, probe>>

SetExperimentalOptions ==
    /\ script.pc = "set_experimental_options"
    /\ script' = [script EXCEPT !.pc = "setup_strategy",
           !.received = Receive("set_experimental_options",
                                [auto_mixed_precision |-> script.args.mxp])]
    /\ UNCHANGED <<model, held, prev, last, calls, batch, result, probe>>

SetupStrategy ==
    /\ script.pc = "setup_strategy"
    /\ script' = [script EXCEPT !.pc = "Config",
           !.received = Receive("setup_strategy", [devices |-> script.args.devices])]
    /\ UNCHANGED <<model, held, prev, last, calls, batch, result, probe>>

LoadConfig ==
    /\ script.pc = "Config"
    /\ script' = [script EXCEPT !.pc = "datasets",
           !.received = Receive("Config", [path |-> script.args.config,
                                           learning |-> TRUE])]
    /\ UNCHANGED <<model, held, prev, last, calls, batch, result, probe>>

BuildDatasets ==
    /\ script.pc = "datasets"
    /\ script' = [script EXCEPT !.pc = "compile",
           !.datasets = Datasets(script.args),
           !.received = Receive("datasets", Datasets(script.args))]
    /\ UNCHANGED <<model, held, prev, last, calls, batch, result, probe>>

\* TransducerTrainer(...), the model built in the strategy scope, then compile
Compile ==
    /\ script.pc = "compile"
    /\ script' = [script EXCEPT !.pc = "fit",
           !.received = Receive("compile", [max_to_keep |-> script.args.max_ckpts])]
    /\ UNCHANGED <<model, held, prev, last, calls, batch, result, probe>>

Fit ==
    /\ script.pc = "fit"
    /\ script' = [script EXCEPT !.pc = "done",
           !.received = Receive("fit", FitArguments(script.args, script.datasets))]
    /\ UNCHANGED <<model, held, prev, last, calls, batch, result, probe>>

ScriptNext ==
    \/ ParseArgs
    \/ SetExperimentalOptions
    \/ SetupStrategy
    \/ LoadConfig
    \/ BuildDatasets
    \/ Compile
    \/ Fit

SpecScript == ScriptInit /\ [][ScriptNext]_vars

----------------------------------------------------------------------------
(* C4: every option reaches its consumer unchanged *)

\* the value of an integer option as written on the command line
Decimal(word) ==
    IF Len(word) = 1 THEN word[1] ELSE word[1] * 10 + word[2]

Consumers ==
    {"set_experimental_options", "setup_strategy", "Config", "datasets", "compile", "fit"}

\* C4: each consumer called so far was given the value of its option on the command
\* line, or the option's default (config.yml next to the script, 10 checkpoints, batch
\* sizes None, devices [0], mixed precision off, caching off) when the option is
\* absent; the script calls every consumer before it ends.
C4_OptionsReachConsumers ==
    LET argv == script.argv
        got == script.received
        given(name) == argv[name] # None
    IN
        /\ script.pc = "done" => DOMAIN got = Consumers
        /\ "Config" \in DOMAIN got =>
               got["Config"].path =
                   (IF given("config") THEN argv.config[1] ELSE "<script dir>/config.yml")
        /\ "compile" \in DOMAIN got =>
               got["compile"].max_to_keep =
                   (IF given("max_ckpts") THEN Decimal(argv.max_ckpts[1]) ELSE 10)
        /\ "fit" \in DOMAIN got =>
               /\ got["fit"].train_bs =
                      (IF given("tbs") THEN <<Decimal(argv.tbs[1])>> ELSE None)
               /\ got["fit"].eval_bs =
                      (IF given("ebs") THEN <<Decimal(argv.ebs[1])>> ELSE None)
               /\ got["fit"].train_dataset.stage = "train"
               /\ got["fit"].eval_dataset.stage = "eval"
        /\ "setup_strategy" \in DOMAIN got =>
               got["setup_strategy"].devices =
                   (IF given("devices")
                    THEN [k \in 1 .. Len(argv.devices[1]) |-> Decimal(argv.devices[1][k])]
                    ELSE <<0>>)
        /\ "set_experimental_options" \in DOMAIN got =>
               got["set_experimental_options"].auto_mixed_precision = argv.mxp
        /\ "datasets" \in DOMAIN got =>
               /\ got["datasets"].train.cache = argv.cache
               /\ got["datasets"].eval.cache = argv.cache

\* a finished run given every option, with different batch sizes
C4_Witness ==
    /\ script.pc = "done"
    /\ \A name \in {"config", "max_ckpts", "tbs", "ebs", "devices"} :
           script.argv[name] # None
    /\ script.argv.mxp /\ script.argv.cache /\ script.argv.tfrecords
    /\ script.argv.tbs # script.argv.ebs
    /\ script.received["fit"].train_bs = <<12>>
    /\ script.received["compile"].max_to_keep = 5

\* a finished run given no option
C4_WitnessDefaults ==
    /\ script.pc = "done"
    /\ \A name \in {"config", "max_ckpts", "tbs", "ebs", "devices"} :
           script.argv[name] = None
    /\ ~script.argv.mxp /\ ~script.argv.cache /\ ~script.argv.tfrecords

====
